---- MODULE Spec2Model ----
(***************************************************************************)
(* Flight ticket booking system (src/new.py): the SQLite store (class DB), *)
(* the business logic (class FlightBookingSystem) and the menu loop, as a  *)
(* state machine.  Several CLI processes may share the database file; each *)
(* SQL statement is atomic, and a process can be overtaken by another one  *)
(* wherever it waits for keyboard input.                                   *)
(***************************************************************************)
EXTENDS Integers, Sequences, FiniteSets, TLC

(***************************************************************************)
(* Bounds of the model.                                                    *)
(***************************************************************************)
\* rows the bookings table may hold
MaxBookings == 2
\* rows the users table may hold
MaxUsers == 2
\* random.randint(100, 999) is drawn from RndLow..MaxRnd
MaxRnd == 101
\* total_seats of the flights handed to the seat map on its own
MaxSeats == 14
\* characters of the seat labels handed to the validation on its own
MaxLabelLen == 3
\* base fares of 0..MaxBaseFare thousandths handed to calculate_fare on its own
MaxBaseFare == 200
\* fares of 0..MaxFarePaid hundredths handed to _calculate_refund on its own
MaxFarePaid == 20

(***************************************************************************)
(* Text: a Python str is a sequence of one-character strings.              *)
(***************************************************************************)
Digits == <<"0", "1", "2", "3", "4", "5", "6", "7", "8", "9">>

IsDigit(ch) == \E i \in 1..10 : Digits[i] = ch

DigitVal(ch) == (CHOOSE i \in 1..10 : Digits[i] = ch) - 1

\* str(n) / f"{n}" of a non-negative int
RECURSIVE Str(_)
Str(n) == IF n < 10 THEN <<Digits[n + 1]>>
          ELSE Append(Str(n \div 10), Digits[(n % 10) + 1])

\* f"{n:03d}": zero-padded to a minimum width of 3
Format03d(n) ==
    LET s == Str(n)
    IN  IF Len(s) >= 3 THEN s ELSE [i \in 1..(3 - Len(s)) |-> "0"] \o s

\* int(s) of a string of ASCII digits; int('') raises ValueError
ValueError == -1

RECURSIVE IntOf(_)
IntOf(s) == IF Len(s) = 0 THEN 0
            ELSE 10 * IntOf(SubSeq(s, 1, Len(s) - 1)) + DigitVal(s[Len(s)])

ParseInt(s) == IF Len(s) = 0 THEN ValueError ELSE IntOf(s)

\* str.upper() on the characters the inputs use
UpperCh(ch) ==
    CASE ch = "a" -> "A"
      [] ch = "b" -> "B"
      [] ch = "z" -> "Z"
      [] OTHER -> ch

Upper(s) == [i \in 1..Len(s) |-> UpperCh(s[i])]

\* hashlib.sha256(password).hexdigest(): injective on the passwords used
hash_password(password) == <<"sha256", password>>

(***************************************************************************)
(* The seeded flights table (id = position, AUTOINCREMENT from 1).         *)
(* base_fare is in units of 1/1000, depart_day in days from today.         *)
(***************************************************************************)
Flights == <<
    [flight_no |-> "DG101", src |-> "Coimbatore", dst |-> "Bengaluru",
     depart_day |-> 3, base_fare |-> 2000000, total_seats |-> 30],
    [flight_no |-> "DG102", src |-> "Coimbatore", dst |-> "Chennai",
     depart_day |-> 2, base_fare |-> 1800000, total_seats |-> 30],
    [flight_no |-> "DG201", src |-> "Bengaluru", dst |-> "Mumbai",
     depart_day |-> 5, base_fare |-> 3500000, total_seats |-> 40],
    [flight_no |-> "DG301", src |-> "Chennai", dst |-> "Hyderabad",
     depart_day |-> 4, base_fare |-> 2200000, total_seats |-> 30],
    [flight_no |-> "DG401", src |-> "Coimbatore", dst |-> "Kochi",
     depart_day |-> 1, base_fare |-> 1500000, total_seats |-> 20] >>

\* a blank answer to a text prompt (x.strip() or None)
None == "None"
\* a blank answer to the date prompt, and a text date.fromisoformat rejects
NoDate == 0
InvalidDate == -1

\* DB.search_flights: ids of the flights matching the given filters
search_flights(src, dst, depart_date) ==
    {f \in DOMAIN Flights :
        /\ (src # None => Flights[f].src = src)
        /\ (dst # None => Flights[f].dst = dst)
        /\ (depart_date # NoDate => Flights[f].depart_day = depart_date)}

\* DB.get_flight: the flight id, or 0 when no row has it
get_flight(flight_id) == IF flight_id \in DOMAIN Flights THEN flight_id ELSE 0

(***************************************************************************)
(* Seat map (FlightBookingSystem.show_seat_map).                           *)
(***************************************************************************)
seats_per_row == 6

ColumnLetters == <<"A", "B", "C", "D", "E", "F">>

\* faulty variant of seat_label: the row number leads the label
seat_label_by_row(r, s) == Str(r) \o <<ColumnLetters[s]>>

\* f"{seat_num}{chr(ord('A') + s - 1)}" with seat_num = (r - 1) * seats_per_row + s
seat_label(r, s) == Str((r - 1) * seats_per_row + s) \o <<ColumnLetters[s]>>

\* faulty variant of seat_map_rows: the division rounds down
seat_map_rows_floor(total) == total \div seats_per_row

\* rows = (total + seats_per_row - 1) // seats_per_row
seat_map_rows(total) == (total + seats_per_row - 1) \div seats_per_row

\* the inner loop over s, left at the first seat_num > total
RECURSIVE row_labels(_, _, _, _)
row_labels(total, r, s, acc) ==
    IF s > seats_per_row THEN acc
    ELSE IF (r - 1) * seats_per_row + s > total THEN acc
    ELSE row_labels(total, r, s + 1, Append(acc, seat_label(r, s)))

\* one printed cell: "[X]" for a taken seat, "[<label>]" for a free one
TakenCell == <<"[", "X", "]">>

seat_cell(label, taken) ==
    IF label \in taken THEN TakenCell ELSE <<"[">> \o label \o <<"]">>

\* the printed seat map: one sequence of cells per row
show_seat_map(total, taken) ==
    [r \in 1..seat_map_rows(total) |->
        LET labels == row_labels(total, r, 1, <<>>)
        IN  [i \in 1..Len(labels) |-> seat_cell(labels[i], taken)]]

(***************************************************************************)
(* Fares (calculate_fare, _calculate_refund).  A base fare is an integer   *)
(* count of 1/1000 currency units; a rounded amount is a count of 1/100.   *)
(***************************************************************************)
\* 0.05, in hundredths
TAX_PERCENT == 5
\* 100.0, in whole currency units
SERVICE_FEE == 100

\* round(x, 2) of an amount given in units of 1/unit: the nearest count of
\* hundredths.  The amounts are binary floats: a decimal amount halfway between
\* two hundredths is stored slightly below or above the half, and round() goes
\* to whichever side the stored value lies on, so both sides are results.
Round2(x, unit) ==
    LET step == unit \div 100
        q == x \div step
        r == x % step
    IN  IF 2 * r < step THEN {q}
        ELSE IF 2 * r > step THEN {q + 1}
        ELSE {q, q + 1}

\* faulty variant of calculate_fare: the total is added up from the rounded tax
calculate_fare_rounded_tax(base_fare) ==
    {<<total, tax, fee>> :
        total \in UNION {Round2(base_fare * 100 + t * 1000 + SERVICE_FEE * 100000,
                                100000) :
                            t \in Round2(base_fare * TAX_PERCENT, 100000)},
        tax \in Round2(base_fare * TAX_PERCENT, 100000),
        fee \in Round2(SERVICE_FEE * 100000, 100000)}

\* calculate_fare: the results <<total, tax, fee>>, each rounded on its own
calculate_fare(base_fare) ==
    LET tax == base_fare * TAX_PERCENT              \* in 1/100000
        total == base_fare * 100 + tax + SERVICE_FEE * 100000
    IN  {<<t, x, f>> : t \in Round2(total, 100000), x \in Round2(tax, 100000),
                       f \in Round2(SERVICE_FEE * 100000, 100000)}

\* 48 * 3600 seconds
RefundWindow == 172800

\* faulty variant of calculate_refund: the booking is refunded in full from
\* exactly 48 hours on
calculate_refund_inclusive(fare_paid, created_at, t) ==
    IF t - created_at >= RefundWindow
    THEN Round2(fare_paid, 100)
    ELSE Round2(fare_paid * 5, 1000)

\* _calculate_refund: the results; fare_paid in hundredths, times in seconds
calculate_refund(fare_paid, created_at, t) ==
    IF t - created_at > RefundWindow
    THEN Round2(fare_paid, 100)
    ELSE Round2(fare_paid * 5, 1000)

(***************************************************************************)
(* The store (class DB): tables as sequences of rows, id = position.       *)
(***************************************************************************)
\* DB.get_user: the id of the row with that username, 0 for no row
get_user(us, username) ==
    IF \E i \in DOMAIN us : us[i].username = username
    THEN CHOOSE i \in DOMAIN us : us[i].username = username
    ELSE 0

\* faulty variant of create_user: no UNIQUE constraint on username
create_user_no_unique(us, username, password_hash, t) ==
    [rows |-> Append(us, [username |-> username,
                          password_hash |-> password_hash,
                          created_at |-> t]),
     uid |-> Len(us) + 1]

\* DB.create_user: username is UNIQUE; IntegrityError gives None (0)
create_user(us, username, password_hash, t) ==
    IF \E i \in DOMAIN us : us[i].username = username
    THEN [rows |-> us, uid |-> 0]
    ELSE [rows |-> Append(us, [username |-> username,
                               password_hash |-> password_hash,
                               created_at |-> t]),
          uid |-> Len(us) + 1]

\* DB.seats_taken: the seats of the BOOKED rows of a flight
seats_taken(bk, flight_id) ==
    {bk[i].seat : i \in {j \in DOMAIN bk : /\ bk[j].flight_id = flight_id
                                            /\ bk[j].status = "BOOKED"}}

RndLow == 100

\* the empty string, and None where a reference is expected
NoRef == <<>>

\* DB._generate_booking_ref for the drawn rnd
generate_booking_ref(user_id, flight_id, rnd) ==
    <<"B", "K">> \o Format03d(user_id) \o Format03d(flight_id) \o Str(rnd)

\* faulty variant of ref_integrity_error: no UNIQUE constraint on booking_ref
ref_integrity_error_never(bk, booking_ref) == FALSE

\* booking_ref TEXT UNIQUE: the INSERT raises sqlite3.IntegrityError
ref_integrity_error(bk, booking_ref) ==
    \E i \in DOMAIN bk : bk[i].booking_ref = booking_ref

\* faulty variant of create_booking: the row stores the base fare of the flight
create_booking_base_fare(bk, user_id, flight_id, seat, fare, rnd, t) ==
    LET booking_ref == generate_booking_ref(user_id, flight_id, rnd)
        row == [booking_ref |-> booking_ref, user_id |-> user_id,
                flight_id |-> flight_id, seat |-> seat,
                fare |-> Flights[flight_id].base_fare \div 10,
                status |-> "BOOKED", created_at |-> t]
    IN  IF ref_integrity_error(bk, booking_ref)
        THEN [rows |-> bk, ref |-> NoRef]
        ELSE [rows |-> Append(bk, row), ref |-> booking_ref]

\* DB.create_booking: the rows after the call and the returned reference
\* (NoRef for None)
create_booking(bk, user_id, flight_id, seat, fare, rnd, t) ==
    LET booking_ref == generate_booking_ref(user_id, flight_id, rnd)
        row == [booking_ref |-> booking_ref, user_id |-> user_id,
                flight_id |-> flight_id, seat |-> seat, fare |-> fare,
                status |-> "BOOKED", created_at |-> t]
    IN  IF ref_integrity_error(bk, booking_ref)
        THEN [rows |-> bk, ref |-> NoRef]
        ELSE [rows |-> Append(bk, row), ref |-> booking_ref]

\* the lowest id among the matching rows (fetchone), 0 for no row
FetchOne(ids) == IF ids = {} THEN 0 ELSE CHOOSE i \in ids : \A j \in ids : i <= j

\* faulty variant of get_booking_by_ref: the lookup is not scoped to the user
get_booking_by_ref_any(bk, booking_ref, user_id) ==
    FetchOne({i \in DOMAIN bk : bk[i].booking_ref = booking_ref})

\* DB.get_booking_by_ref: the id of the matching row, 0 for no row
get_booking_by_ref(bk, booking_ref, user_id) ==
    IF user_id # 0
    THEN FetchOne({i \in DOMAIN bk : /\ bk[i].booking_ref = booking_ref
                                      /\ bk[i].user_id = user_id})
    ELSE FetchOne({i \in DOMAIN bk : bk[i].booking_ref = booking_ref})

\* faulty variant of cancel_booking: the UPDATE does not name the row
cancel_booking_all(bk, booking_id) ==
    IF bk[booking_id].status = "BOOKED"
    THEN [rows |-> [i \in DOMAIN bk |-> [bk[i] EXCEPT !.status = "CANCELED"]],
          ok |-> TRUE]
    ELSE [rows |-> bk, ok |-> FALSE]

\* faulty variant of cancel_booking: the UPDATE does not test the status
cancel_booking_unconditional(bk, booking_id) ==
    [rows |-> [bk EXCEPT ![booking_id].status = "CANCELED"], ok |-> TRUE]

\* faulty variant of cancel_booking: the row is updated, the call reports failure
cancel_booking_misreported(bk, booking_id) ==
    [rows |-> [bk EXCEPT ![booking_id].status = "CANCELED"], ok |-> FALSE]

\* DB.cancel_booking: UPDATE ... WHERE id = ? AND status = 'BOOKED'; rowcount > 0
cancel_booking(bk, booking_id) ==
    IF bk[booking_id].status = "BOOKED"
    THEN [rows |-> [bk EXCEPT ![booking_id].status = "CANCELED"], ok |-> TRUE]
    ELSE [rows |-> bk, ok |-> FALSE]

(***************************************************************************)
(* Seat-label validation of book_flight (lines 340-350).                   *)
(***************************************************************************)
\* int(''.join(ch for ch in seat if ch.isdigit()))
seat_num_part(seat) == ParseInt(SelectSeq(seat, IsDigit))

\* "format": the except branch; "range": the range test; "ok": the label passes
validate_seat(seat, max_seat_num) ==
    LET n == seat_num_part(seat)
    IN  IF n = ValueError THEN "format"
        ELSE IF n < 1 \/ n > max_seat_num THEN "range"
        ELSE "ok"

\* faulty variant of is_canceled: the status test is left out
is_canceled_never(bk, booking_id) == FALSE

\* cancel_booking_flow: b["status"] == "CANCELED"
is_canceled(bk, booking_id) == bk[booking_id].status = "CANCELED"

(***************************************************************************)
(* What a process prints last.                                             *)
(***************************************************************************)
MsgMenu == "=== Flight Ticket Booking System ==="
MsgLoginToBook == "Please login to book."
MsgInvalidDate == "Invalid date format. Use YYYY-MM-DD."
MsgNoFlights == "No flights found."
MsgInvalidFlightId == "Invalid Flight ID."
MsgFlightNotFound == "Flight not found."
MsgSeatMap == "Seat Map (X = taken) :"
MsgNoSeat == "No seat selected."
MsgOutOfRange == "Seat number out of range."
MsgInvalidSeat == "Invalid seat format."
MsgSeatTaken == "Seat already taken. Choose another."
MsgFareBreakdown == "Fare breakdown:"
MsgNotConfirmed == "Booking cancelled by user."
MsgBooked == "Booking successful!"
MsgBookingFailed == "Failed to create booking. Try again."
MsgLoginToCancel == "Please login to cancel bookings."
MsgNoBookings == "No bookings found."
MsgYourBookings == "Your Bookings:"
MsgBookingNotFound == "Booking not found."
MsgAlreadyCanceled == "Booking already canceled."
MsgAreYouSure == "Are you sure you want to cancel?"
MsgCancelAborted == "Cancellation aborted."
MsgCanceled == "Booking canceled. Estimated refund:"
MsgCancelFailed == "Failed to cancel booking."
MsgRegister == "=== Register ==="
MsgUsernameEmpty == "Username cannot be empty."
MsgUsernameExists == "Username already exists. Choose another."
MsgPasswordShort == "Password too short (min 4 chars)."
MsgPasswordMismatch == "Passwords do not match."
MsgRegistered == "Registration successful! Please login."
MsgRegistrationFailed == "Registration failed. Try again."
MsgUserNotFound == "User not found."
MsgIncorrectPassword == "Incorrect password."
MsgWelcome == "Welcome"
MsgLoggedOut == "Logged out."

(***************************************************************************)
(* State.                                                                  *)
(***************************************************************************)
VARIABLES
    users,          \* table users
    bookings,       \* table bookings
    now,            \* datetime.datetime.now(), in seconds
    current_user,   \* per process: id of app.current_user, 0 for None
    pc,             \* per process: the prompt it waits at
    loc,            \* per process: the locals of the flow it is in
    console,        \* per process: the last message printed
    refund_log,     \* every "Booking ... canceled. Estimated refund" line printed
    fn_in,          \* the arguments of a function called on its own
    fn_out          \* and its result

vars == <<users, bookings, now, current_user, pc, loc, console, refund_log,
          fn_in, fn_out>>

\* the CLI processes sharing the database file
Procs == {"p1", "p2"}

NoRow == [id |-> 0, fare |-> 0, created_at |-> 0]
NoLocals == [flight |-> 0, seat |-> <<>>, total |-> 0, ref |-> <<>>, b |-> NoRow,
             username |-> ""]
NoCall == [fn |-> "none"]

\* DB() on a fresh file and FlightBookingSystem(db) in every process
Init ==
    /\ users = <<>>
    /\ bookings = <<>>
    /\ now = 0
    /\ current_user = [p \in Procs |-> 0]
    /\ pc = [p \in Procs |-> "menu"]
    /\ loc = [p \in Procs |-> NoLocals]
    /\ console = [p \in Procs |-> MsgMenu]
    /\ refund_log = <<>>
    /\ fn_in = NoCall
    /\ fn_out = NoCall

\* the flow returns to the menu having printed msg
Return(p, msg) ==
    /\ pc' = [pc EXCEPT ![p] = "menu"]
    /\ loc' = [loc EXCEPT ![p] = NoLocals]
    /\ console' = [console EXCEPT ![p] = msg]

\* the flow waits at the prompt at, with locals l, having printed msg
Prompt(p, at, l, msg) ==
    /\ pc' = [pc EXCEPT ![p] = at]
    /\ loc' = [loc EXCEPT ![p] = l]
    /\ console' = [console EXCEPT ![p] = msg]

(***************************************************************************)
(* register: the username prompt, then the two password prompts.           *)
(***************************************************************************)
RegisterUsername(p, username) ==
    /\ pc[p] \in {"menu", "register"}
    /\ IF username = ""
       THEN Prompt(p, "register", NoLocals, MsgUsernameEmpty)
       ELSE IF get_user(users, username) # 0
       THEN Prompt(p, "register", NoLocals, MsgUsernameExists)
       ELSE Prompt(p, "reg_password", [NoLocals EXCEPT !.username = username],
                   MsgRegister)
    /\ UNCHANGED <<users, bookings, now, current_user, refund_log, fn_in, fn_out>>

RegisterPassword(p, password, password2) ==
    /\ pc[p] = "reg_password"
    /\ Len(users) < MaxUsers
    /\ IF Len(password) < 4
       THEN /\ Prompt(p, "register", NoLocals, MsgPasswordShort)
            /\ UNCHANGED users
       ELSE IF password # password2
       THEN /\ Prompt(p, "register", NoLocals, MsgPasswordMismatch)
            /\ UNCHANGED users
       ELSE LET res == create_user(users, loc[p].username,
                                   hash_password(password), now)
            IN  /\ users' = res.rows
                /\ Return(p, IF res.uid # 0 THEN MsgRegistered
                             ELSE MsgRegistrationFailed)
    /\ UNCHANGED <<bookings, now, current_user, refund_log, fn_in, fn_out>>

(***************************************************************************)
(* login, logout.                                                          *)
(***************************************************************************)
\* faulty variant of Login: current_user is assigned before the password is
\* compared
Login_assign_first(p, username, password) ==
    /\ pc[p] = "menu"
    /\ LET user == get_user(users, username)
       IN  IF user = 0
           THEN /\ Return(p, MsgUserNotFound)
                /\ UNCHANGED current_user
           ELSE /\ current_user' = [current_user EXCEPT ![p] = user]
                /\ Return(p, IF users[user].password_hash # hash_password(password)
                             THEN MsgIncorrectPassword ELSE MsgWelcome)
    /\ UNCHANGED <<users, bookings, now, refund_log, fn_in, fn_out>>

\* login: current_user is set once the password hash has matched
Login(p, username, password) ==
    /\ pc[p] = "menu"
    /\ LET user == get_user(users, username)
       IN  IF user = 0
           THEN /\ Return(p, MsgUserNotFound)
                /\ UNCHANGED current_user
           ELSE IF users[user].password_hash # hash_password(password)
           THEN /\ Return(p, MsgIncorrectPassword)
                /\ UNCHANGED current_user
           ELSE /\ current_user' = [current_user EXCEPT ![p] = user]
                /\ Return(p, MsgWelcome)
    /\ UNCHANGED <<users, bookings, now, refund_log, fn_in, fn_out>>

Logout(p) ==
    /\ pc[p] = "menu"
    /\ current_user' = [current_user EXCEPT ![p] = 0]
    /\ Return(p, MsgLoggedOut)
    /\ UNCHANGED <<users, bookings, now, refund_log, fn_in, fn_out>>

(***************************************************************************)
(* book_flight: up to the seat prompt (lines 319-335), up to the           *)
(* confirmation prompt (336-357), and the insert (358-367).                *)
(***************************************************************************)
BookFlight(p, src, dst, ddate, fid) ==
    /\ pc[p] = "menu"
    /\ IF current_user[p] = 0 THEN Return(p, MsgLoginToBook)
       ELSE IF ddate = InvalidDate THEN Return(p, MsgInvalidDate)
       ELSE IF search_flights(src, dst, ddate) = {} THEN Return(p, MsgNoFlights)
       ELSE IF fid = ValueError THEN Return(p, MsgInvalidFlightId)
       ELSE IF get_flight(fid) = 0 THEN Return(p, MsgFlightNotFound)
       ELSE Prompt(p, "book_seat", [NoLocals EXCEPT !.flight = get_flight(fid)],
                   MsgSeatMap)
    /\ UNCHANGED <<users, bookings, now, current_user, refund_log, fn_in, fn_out>>

BookSeat(p, input) ==
    /\ pc[p] = "book_seat"
    /\ LET seat == Upper(input)
           flight == loc[p].flight
           valid == validate_seat(seat, Flights[flight].total_seats)
       IN  IF seat = <<>> THEN Return(p, MsgNoSeat)
           ELSE IF valid = "range" THEN Return(p, MsgOutOfRange)
           ELSE IF valid = "format" THEN Return(p, MsgInvalidSeat)
           ELSE IF seat \in seats_taken(bookings, flight)
           THEN Return(p, MsgSeatTaken)
           ELSE \E fare \in calculate_fare(Flights[flight].base_fare) :
                    Prompt(p, "book_confirm",
                           [NoLocals EXCEPT
                               !.flight = flight, !.seat = seat, !.total = fare[1]],
                           MsgFareBreakdown)
    /\ UNCHANGED <<users, bookings, now, current_user, refund_log, fn_in, fn_out>>

BookConfirm(p, confirm, rnd) ==
    /\ pc[p] = "book_confirm"
    /\ IF confirm # "y"
       THEN /\ Return(p, MsgNotConfirmed)
            /\ UNCHANGED bookings
       ELSE /\ Len(bookings) < MaxBookings
            /\ LET res == create_booking(bookings, current_user[p], loc[p].flight,
                                         loc[p].seat, loc[p].total, rnd, now)
               IN  /\ bookings' = res.rows
                   /\ Return(p, IF res.ref # NoRef THEN MsgBooked
                                ELSE MsgBookingFailed)
    /\ UNCHANGED <<users, now, current_user, refund_log, fn_in, fn_out>>

(***************************************************************************)
(* cancel_booking_flow: up to the confirmation prompt (lines 391-405),     *)
(* and the update (406-415).                                               *)
(***************************************************************************)
\* view_bookings: the last line it prints
view_bookings(bk, user_id) ==
    IF \E i \in DOMAIN bk : bk[i].user_id = user_id
    THEN MsgYourBookings ELSE MsgNoBookings

CancelLookup(p, ref) ==
    /\ pc[p] = "menu"
    /\ LET b == get_booking_by_ref(bookings, ref, current_user[p])
       IN  IF current_user[p] = 0 THEN Return(p, MsgLoginToCancel)
           ELSE IF ref = NoRef
           THEN Return(p, view_bookings(bookings, current_user[p]))
           ELSE IF b = 0 THEN Return(p, MsgBookingNotFound)
           ELSE IF is_canceled(bookings, b) THEN Return(p, MsgAlreadyCanceled)
           ELSE Prompt(p, "cancel_confirm",
                       [NoLocals EXCEPT
                           !.ref = ref,
                           !.b = [id |-> b, fare |-> bookings[b].fare,
                                  created_at |-> bookings[b].created_at]],
                       MsgAreYouSure)
    /\ UNCHANGED <<users, bookings, now, current_user, refund_log, fn_in, fn_out>>

CancelConfirm(p, confirm) ==
    /\ pc[p] = "cancel_confirm"
    /\ IF confirm # "y"
       THEN /\ Return(p, MsgCancelAborted)
            /\ UNCHANGED <<bookings, refund_log>>
       ELSE LET res == cancel_booking(bookings, loc[p].b.id)
            IN  /\ bookings' = res.rows
                /\ IF res.ok
                   THEN /\ Return(p, MsgCanceled)
                        /\ \E refund \in calculate_refund(loc[p].b.fare,
                                               loc[p].b.created_at, now) :
                              refund_log' = Append(refund_log,
                                  [id |-> loc[p].b.id, by |-> p,
                                   refund |-> refund])
                   ELSE /\ Return(p, MsgCancelFailed)
                        /\ UNCHANGED refund_log
    /\ UNCHANGED <<users, now, current_user, fn_in, fn_out>>

(***************************************************************************)
(* The process exits (menu choice 0, or Ctrl-C at any prompt) and is       *)
(* started again on the same database file.                                *)
(***************************************************************************)
Restart(p) ==
    /\ pc[p] # "menu" \/ current_user[p] # 0 \/ console[p] # MsgMenu
    /\ current_user' = [current_user EXCEPT ![p] = 0]
    /\ Return(p, MsgMenu)
    /\ UNCHANGED <<users, bookings, now, refund_log, fn_in, fn_out>>

(***************************************************************************)
(* What the user types.                                                    *)
(***************************************************************************)
UsernameInputs == {"", "alice", "bob"}
ShortPassword == <<"a", "b", "c">>
GoodPassword == <<"p", "a", "s", "s">>
PasswordInputs == {ShortPassword, GoodPassword}
SrcInputs == {None, "Madurai"}
DstInputs == {None}
DateInputs == {NoDate, InvalidDate}
FlightIdInputs == {ValueError, 1, 5, 9}
SeatInputs == {<<>>, <<"1", "a">>, <<"z">>, <<"0", "A">>, <<"9", "9", "A">>}
ConfirmInputs == {"y", "n"}
RndInputs == RndLow..MaxRnd
RefInputs == {NoRef} \cup {generate_booking_ref(u, f, r) :
                              u \in 1..MaxUsers, f \in {1, 5}, r \in RndInputs}

(***************************************************************************)
(* One session: every menu choice, every answer.                           *)
(***************************************************************************)
Step(p) ==
    \/ \E u \in UsernameInputs : RegisterUsername(p, u)
    \/ \E pw \in PasswordInputs, pw2 \in PasswordInputs : RegisterPassword(p, pw, pw2)
    \/ \E u \in UsernameInputs, pw \in PasswordInputs : Login(p, u, pw)
    \/ Logout(p)
    \/ \E src \in SrcInputs, dst \in DstInputs, d \in DateInputs,
          fid \in FlightIdInputs : BookFlight(p, src, dst, d, fid)
    \/ \E seat \in SeatInputs : BookSeat(p, seat)
    \/ \E c \in ConfirmInputs, rnd \in RndInputs : BookConfirm(p, c, rnd)
    \/ \E ref \in RefInputs : CancelLookup(p, ref)
    \/ \E c \in ConfirmInputs : CancelConfirm(p, c)
    \/ Restart(p)

Next == Step("p1")

Spec == Init /\ [][Next]_vars

(***************************************************************************)
(* Several sessions on a database file that holds two registered users:    *)
(* the processes log in, book and cancel, overtaking each other at the     *)
(* prompts.                                                                *)
(***************************************************************************)
RegisteredUsers ==
    <<[username |-> "alice", password_hash |-> hash_password(GoodPassword),
       created_at |-> 0],
      [username |-> "bob", password_hash |-> hash_password(GoodPassword),
       created_at |-> 0]>>

InitConc ==
    /\ users = RegisteredUsers
    /\ bookings = <<>>
    /\ now = 0
    /\ current_user = [p \in Procs |-> 0]
    /\ pc = [p \in Procs |-> "menu"]
    /\ loc = [p \in Procs |-> NoLocals]
    /\ console = [p \in Procs |-> MsgMenu]
    /\ refund_log = <<>>
    /\ fn_in = NoCall
    /\ fn_out = NoCall

ConcFlightIdInputs == {1, 9}
ConcSeatInputs == {<<"1", "a">>, <<"z">>, <<"9", "9", "A">>}
ConcRefInputs == {generate_booking_ref(u, 1, r) : u \in 1..2, r \in RndInputs}

StepConc(p) ==
    \/ \E u \in {"alice", "bob"} : current_user[p] = 0 /\ Login(p, u, GoodPassword)
    \/ \E fid \in ConcFlightIdInputs : BookFlight(p, None, None, NoDate, fid)
    \/ \E seat \in ConcSeatInputs : BookSeat(p, seat)
    \/ \E c \in ConfirmInputs, rnd \in RndInputs : BookConfirm(p, c, rnd)
    \/ \E ref \in ConcRefInputs : CancelLookup(p, ref)
    \/ \E c \in ConfirmInputs : CancelConfirm(p, c)

NextConc == \E p \in Procs : StepConc(p)

SpecConc == InitConc /\ [][NextConc]_vars

(***************************************************************************)
(* show_seat_map on its own: a flight of 1..MaxSeats seats, some of its    *)
(* seats taken.                                                            *)
(***************************************************************************)
TakenInputs == SUBSET {<<"1", "A">>, <<"2", "B">>, <<"7", "A">>}

InitSeatMap ==
    /\ users = <<>>
    /\ bookings = <<>>
    /\ now = 0
    /\ current_user = [p \in Procs |-> 0]
    /\ pc = [p \in Procs |-> "menu"]
    /\ loc = [p \in Procs |-> NoLocals]
    /\ console = [p \in Procs |-> MsgMenu]
    /\ refund_log = <<>>
    /\ fn_in \in {[fn |-> "show_seat_map", total |-> n, taken |-> t] :
                     n \in 1..MaxSeats, t \in TakenInputs}
    /\ fn_out = NoCall

ShowSeatMap ==
    /\ fn_in.fn = "show_seat_map"
    /\ fn_out = NoCall
    /\ fn_out' = [fn |-> "show_seat_map",
                  rows |-> show_seat_map(fn_in.total, fn_in.taken)]
    /\ UNCHANGED <<users, bookings, now, current_user, pc, loc, console,
                   refund_log, fn_in>>

NextSeatMap == ShowSeatMap

SpecSeatMap == InitSeatMap /\ [][NextSeatMap]_vars

(***************************************************************************)
(* Properties.                                                             *)
(***************************************************************************)
\* process p has taken a step
StepOf(p) ==
    <<pc'[p], loc'[p], console'[p], current_user'[p]>>
        # <<pc[p], loc[p], console[p], current_user[p]>>

\* some row of the flight holds the seat in the given status
Held(flight_id, seat, status) ==
    \E i \in DOMAIN bookings : /\ bookings[i].flight_id = flight_id
                               /\ bookings[i].seat = seat
                               /\ bookings[i].status = status

\* some row has the reference
RefHeld(booking_ref) ==
    \E i \in DOMAIN bookings : bookings[i].booking_ref = booking_ref

\* C1: in every reachable state no flight has two BOOKED bookings holding the
\* same seat label, so of the book calls racing for one (flight, seat) exactly
\* one succeeds.
C1_OneBookedPerSeat ==
    \A i, j \in DOMAIN bookings :
        (/\ i # j
         /\ bookings[i].status = "BOOKED"
         /\ bookings[j].status = "BOOKED"
         /\ bookings[i].flight_id = bookings[j].flight_id)
        => bookings[i].seat # bookings[j].seat

\* C2: in one session, a book of a seat held by a BOOKED booking of the flight
\* fails with "Seat already taken" and inserts nothing; a book of a seat whose
\* holders are all CANCELED passes the taken check and, once confirmed,
\* succeeds and inserts the BOOKED row.
C2_TakenThenFreed ==
    [][\A p \in Procs :
        /\ \A input \in SeatInputs :
             (BookSeat(p, input) /\ Held(loc[p].flight, Upper(input), "BOOKED"))
             => (/\ console'[p] = MsgSeatTaken
                 /\ pc'[p] = "menu"
                 /\ bookings' = bookings)
        /\ \A input \in SeatInputs :
             (/\ BookSeat(p, input)
              /\ Held(loc[p].flight, Upper(input), "CANCELED")
              /\ ~Held(loc[p].flight, Upper(input), "BOOKED"))
             => pc'[p] = "book_confirm"
        /\ \A rnd \in RndInputs :
             (/\ BookConfirm(p, "y", rnd)
              /\ Held(loc[p].flight, loc[p].seat, "CANCELED")
              /\ ~Held(loc[p].flight, loc[p].seat, "BOOKED"))
             => (/\ console'[p] = MsgBooked
                 /\ Len(bookings') = Len(bookings) + 1
                 /\ bookings'[Len(bookings')].seat = loc[p].seat
                 /\ bookings'[Len(bookings')].status = "BOOKED")
    ]_vars

\* C3: a booking is created BOOKED; the only change of a status is BOOKED to
\* CANCELED, so a CANCELED booking stays CANCELED; a cancel call on the
\* reference of a CANCELED booking changes no row and logs no refund, and
\* made by the booking's user it reports "Booking already canceled".
C3_CancelOnce ==
    [][/\ \A i \in DOMAIN bookings' :
            IF i \in DOMAIN bookings
            THEN bookings'[i].status # bookings[i].status
                 => (/\ bookings[i].status = "BOOKED"
                     /\ bookings'[i].status = "CANCELED")
            ELSE bookings'[i].status = "BOOKED"
       /\ \A p \in Procs, ref \in ConcRefInputs :
            (/\ current_user[p] # 0
             /\ \E i \in DOMAIN bookings : /\ bookings[i].booking_ref = ref
                                           /\ bookings[i].status = "CANCELED"
             /\ CancelLookup(p, ref))
            => (/\ pc'[p] = "menu"
                /\ bookings' = bookings
                /\ refund_log' = refund_log
                /\ (\E i \in DOMAIN bookings :
                        /\ bookings[i].booking_ref = ref
                        /\ bookings[i].user_id = current_user[p])
                   => console'[p] = MsgAlreadyCanceled)
    ]_vars

\* C3 witness: the owner of a CANCELED booking has been told it is already
\* canceled, and the one refund of that booking is the only one logged.
C3_Witness ==
    /\ console["p1"] = MsgAlreadyCanceled
    /\ \E i \in DOMAIN bookings : /\ bookings[i].status = "CANCELED"
                                  /\ bookings[i].user_id = current_user["p1"]
    /\ Len(refund_log) = 1

\* C4: no booking has two success reports (two refunds) of its cancellation,
\* and a cancellation is reported only for a row that the update turned from
\* BOOKED to CANCELED.
C4_OneCancelSucceeds ==
    /\ \A i, j \in DOMAIN refund_log :
          i # j => refund_log[i].id # refund_log[j].id
    /\ \A i \in DOMAIN refund_log :
          bookings[refund_log[i].id].status = "CANCELED"
    /\ \A i \in DOMAIN bookings :
          bookings[i].status = "CANCELED"
          => \E k \in DOMAIN refund_log : refund_log[k].id = i

\* C4 witness: two processes had both read the booking as BOOKED; one was
\* told it canceled it, the other that the cancellation failed.
C4_Witness ==
    /\ console["p1"] = MsgCanceled
    /\ console["p2"] = MsgCancelFailed
    /\ Len(refund_log) = 1

\* C5: a confirmed insert whose drawn reference collides does not fail the
\* booking while another reference of the same user and flight is free.
C5_CollisionRetried ==
    [][\A p \in Procs, rnd \in RndInputs :
        (/\ BookConfirm(p, "y", rnd)
         /\ \E r \in RndInputs :
               ~RefHeld(generate_booking_ref(current_user[p], loc[p].flight, r)))
        => console'[p] = MsgBooked
    ]_vars

\* C6: a cancel call by a logged-in user on a reference that no booking of
\* that user has reports "Booking not found" and changes nothing; a status
\* becomes CANCELED only in the confirmed cancel of a process whose user is
\* the booking's user.
C6_CancelScopedToUser ==
    [][/\ \A p \in Procs, ref \in ConcRefInputs :
            (/\ current_user[p] # 0
             /\ ref # NoRef
             /\ ~\E i \in DOMAIN bookings :
                    /\ bookings[i].booking_ref = ref
                    /\ bookings[i].user_id = current_user[p]
             /\ CancelLookup(p, ref))
            => (/\ console'[p] = MsgBookingNotFound
                /\ pc'[p] = "menu"
                /\ bookings' = bookings)
       /\ \A i \in DOMAIN bookings :
            bookings'[i].status # bookings[i].status
            => \E p \in Procs : /\ pc[p] = "cancel_confirm"
                                /\ pc'[p] = "menu"
                                /\ loc[p].b.id = i
                                /\ current_user[p] = bookings[i].user_id
    ]_vars

\* C6 witness: a logged-in user with no booking has been told "Booking not
\* found" while the other user's booking is still BOOKED.
C6_Witness ==
    /\ console["p1"] = MsgBookingNotFound
    /\ current_user["p1"] # 0
    /\ bookings # <<>>
    /\ \A i \in DOMAIN bookings : /\ bookings[i].user_id # current_user["p1"]
                                  /\ bookings[i].status = "BOOKED"

BookFailures ==
    {MsgLoginToBook, MsgInvalidDate, MsgNoFlights, MsgInvalidFlightId,
     MsgFlightNotFound, MsgNoSeat, MsgOutOfRange, MsgInvalidSeat, MsgSeatTaken,
     MsgNotConfirmed, MsgBookingFailed}

CancelFailures ==
    {MsgLoginToCancel, MsgNoBookings, MsgYourBookings, MsgBookingNotFound,
     MsgAlreadyCanceled, MsgCancelAborted, MsgCancelFailed}

\* C7: a step of a process that ends in a failure report of book or cancel
\* leaves every row as it was; the rows change only in a step that reports
\* success, which appends one BOOKED row or turns one row CANCELED.
C7_NoPartialState ==
    [][/\ \A p \in Procs :
            (StepOf(p) /\ console'[p] \in BookFailures \cup CancelFailures)
            => bookings' = bookings
       /\ bookings' # bookings
          => \E p \in Procs :
                /\ StepOf(p)
                /\ \/ /\ console'[p] = MsgBooked
                      /\ Len(bookings') = Len(bookings) + 1
                      /\ SubSeq(bookings', 1, Len(bookings)) = bookings
                   \/ /\ console'[p] = MsgCanceled
                      /\ \E i \in DOMAIN bookings :
                            bookings' = [bookings EXCEPT ![i].status = "CANCELED"]
    ]_vars

\* C7 witness: one process failed to insert (reference collision), the other
\* failed to cancel (the update was not applied), and the rows are those the
\* successful calls left.
C7_Witness ==
    /\ console["p1"] = MsgBookingFailed
    /\ console["p2"] = MsgCancelFailed
    /\ Len(bookings) = 1
    /\ bookings[1].status = "CANCELED"

RefsUnique ==
    \A i, j \in DOMAIN bookings :
        i # j => bookings[i].booking_ref # bookings[j].booking_ref

\* C8: no two bookings share a booking_ref, and no step (a cancellation
\* included) changes the booking_ref of a row.
C8_RefUniqueStable ==
    /\ []RefsUnique
    /\ [][\A i \in DOMAIN bookings :
            /\ i \in DOMAIN bookings'
            /\ bookings'[i].booking_ref = bookings[i].booking_ref]_vars

\* C8 witness: a canceled booking still has the reference it was created
\* with, beside a second booking, after an insert was rejected for its
\* reference.
C8_Witness ==
    /\ Len(bookings) = 2
    /\ bookings[1].status = "CANCELED"
    /\ \E r \in RndInputs :
          bookings[1].booking_ref =
             generate_booking_ref(bookings[1].user_id, bookings[1].flight_id, r)
    /\ bookings[2].user_id = bookings[1].user_id
    /\ \E p \in Procs : console[p] = MsgBookingFailed

(***************************************************************************)
(* The seat map.                                                           *)
(***************************************************************************)
\* the cell of the seat with ordinal k, in row-major order
CellOf(rows, k) ==
    rows[((k - 1) \div seats_per_row) + 1][((k - 1) % seats_per_row) + 1]

\* ceil(k / 6)
RowNumber(k) == (k + seats_per_row - 1) \div seats_per_row

ColumnLetter(k) == ColumnLetters[((k - 1) % seats_per_row) + 1]

\* C9 as stated: the cell of seat k shows the row number ceil(k / 6) followed
\* by the column letter.
C9_RowNumberLabel ==
    fn_out # NoCall
    => \A k \in 1..fn_in.total :
          /\ RowNumber(k) \in DOMAIN fn_out.rows
          /\ ((k - 1) % seats_per_row) + 1 \in DOMAIN fn_out.rows[RowNumber(k)]
          /\ CellOf(fn_out.rows, k) =
                seat_cell(Str(RowNumber(k)) \o <<ColumnLetter(k)>>, fn_in.taken)

\* C9 as amended: the cell of seat k shows the seat ordinal k followed by the
\* column letter at index (k - 1) mod 6.
C9_OrdinalLabel ==
    fn_out # NoCall
    => \A k \in 1..fn_in.total :
          /\ RowNumber(k) \in DOMAIN fn_out.rows
          /\ ((k - 1) % seats_per_row) + 1 \in DOMAIN fn_out.rows[RowNumber(k)]
          /\ CellOf(fn_out.rows, k) =
                seat_cell(Str(k) \o <<ColumnLetter(k)>>, fn_in.taken)

\* C9 witness: the map of a flight with a second row, no seat taken; its 7th
\* seat is shown as 7A.
C9_Witness ==
    /\ fn_out # NoCall
    /\ fn_in.total >= 7
    /\ fn_in.taken = {}
    /\ fn_out.rows[2][1] = <<"[", "7", "A", "]">>

\* the cells of the map, row after row
RECURSIVE Flatten(_)
Flatten(rows) ==
    IF Len(rows) = 0 THEN <<>>
    ELSE Flatten(SubSeq(rows, 1, Len(rows) - 1)) \o rows[Len(rows)]

\* C10: the map has exactly total_seats cells, the cells of free seats
\* pairwise distinct; every row but the last has 6 cells, the last has 1..6.
C10_SeatMapShape ==
    fn_out # NoCall
    => LET rows == fn_out.rows
           cells == Flatten(rows)
       IN  /\ Len(cells) = fn_in.total
           /\ \A i, j \in DOMAIN cells :
                 (i # j /\ cells[i] # TakenCell) => cells[i] # cells[j]
           /\ Cardinality({i \in DOMAIN cells : cells[i] = TakenCell})
                 <= Cardinality(fn_in.taken)
           /\ \A r \in DOMAIN rows :
                 IF r < Len(rows) THEN Len(rows[r]) = seats_per_row
                 ELSE Len(rows[r]) \in 1..seats_per_row

\* C10 witness: a map whose last row is partial, no seat taken.
C10_Witness ==
    /\ fn_out # NoCall
    /\ fn_in.taken = {}
    /\ Len(fn_out.rows) = 3
    /\ Len(fn_out.rows[3]) = 2

(***************************************************************************)
(* The seat prompt of book_flight on its own (lines 336-350): every answer *)
(* of up to MaxLabelLen characters, for a flight of 1..MaxSeats seats.     *)
(***************************************************************************)
LabelChars == {"0", "1", "2", "A"}

RECURSIVE LabelsOfLen(_)
LabelsOfLen(n) ==
    IF n = 0 THEN {<<>>}
    ELSE {Append(s, c) : s \in LabelsOfLen(n - 1), c \in LabelChars}

LabelInputs == UNION {LabelsOfLen(n) : n \in 0..MaxLabelLen}

InitValidate ==
    /\ users = <<>>
    /\ bookings = <<>>
    /\ now = 0
    /\ current_user = [p \in Procs |-> 0]
    /\ pc = [p \in Procs |-> "menu"]
    /\ loc = [p \in Procs |-> NoLocals]
    /\ console = [p \in Procs |-> MsgMenu]
    /\ refund_log = <<>>
    /\ fn_in \in {[fn |-> "validate_seat", seat |-> s, total |-> n] :
                     s \in LabelInputs, n \in 1..MaxSeats}
    /\ fn_out = NoCall

\* "empty": the answer is blank and the validation is not reached
ValidateSeat ==
    /\ fn_in.fn = "validate_seat"
    /\ fn_out = NoCall
    /\ fn_out' = [fn |-> "validate_seat",
                  result |-> IF Upper(fn_in.seat) = <<>> THEN "empty"
                             ELSE validate_seat(Upper(fn_in.seat), fn_in.total)]
    /\ UNCHANGED <<users, bookings, now, current_user, pc, loc, console,
                   refund_log, fn_in>>

NextValidate == ValidateSeat

SpecValidate == InitValidate /\ [][NextValidate]_vars

(***************************************************************************)
(* One session on a database file that holds two registered users, typing  *)
(* seat labels of every shape at the seat prompt of the 20-seat flight.    *)
(***************************************************************************)
LabelFlightIdInputs == {5}
LabelSeatInputs == {<<"1", "a">>, <<"a", "1">>, <<"1", "z">>, <<"z">>,
                    <<"9", "9", "A">>}
LabelRefInputs == {generate_booking_ref(u, 5, r) : u \in 1..2, r \in RndInputs}

StepLabels(p) ==
    \/ \E u \in {"alice", "bob"} : current_user[p] = 0 /\ Login(p, u, GoodPassword)
    \/ \E fid \in LabelFlightIdInputs : BookFlight(p, None, None, NoDate, fid)
    \/ \E seat \in LabelSeatInputs : BookSeat(p, seat)
    \/ \E c \in ConfirmInputs, rnd \in RndInputs : BookConfirm(p, c, rnd)
    \/ \E ref \in LabelRefInputs : CancelLookup(p, ref)
    \/ \E c \in ConfirmInputs : CancelConfirm(p, c)

NextLabels == StepLabels("p1")

SpecLabels == InitConc /\ [][NextLabels]_vars

\* the leading digit sequence of a label: its longest prefix of digits
RECURSIVE LeadingDigits(_)
LeadingDigits(s) ==
    IF s = <<>> THEN <<>>
    ELSE IF ~IsDigit(Head(s)) THEN <<>>
    ELSE <<Head(s)>> \o LeadingDigits(Tail(s))

\* C11: a seat label with no leading digit sequence (A1, Z) is refused at the
\* seat prompt as an invalid seat format, and no such label reaches the
\* taken-seat check, the confirmation prompt or a row of the bookings table.
C11_NoLeadingDigitRefused ==
    /\ [][\A p \in Procs, input \in LabelSeatInputs :
             (LeadingDigits(Upper(input)) = <<>> /\ BookSeat(p, input))
                 => /\ console'[p] = MsgInvalidSeat
                    /\ pc'[p] = "menu"]_vars
    /\ [](\A i \in DOMAIN bookings : LeadingDigits(bookings[i].seat) # <<>>)

\* C12: a label with a leading digit sequence is out of range exactly when the
\* value of that leading sequence is below 1 or above total_seats, and passes
\* otherwise, whatever characters follow the leading digits.
C12_LeadingDigitsDecide ==
    (fn_out.fn = "validate_seat" /\ LeadingDigits(Upper(fn_in.seat)) # <<>>)
        => LET n == ParseInt(LeadingDigits(Upper(fn_in.seat)))
           IN  IF n < 1 \/ n > fn_in.total
               THEN fn_out.result = "range"
               ELSE fn_out.result = "ok"

(***************************************************************************)
(* calculate_fare on its own: the small base fares, with up to 3 decimal   *)
(* digits, the base fares of the seeded flights and 1000.0.                *)
(***************************************************************************)
BaseFareInputs ==
    (0..MaxBaseFare) \cup {Flights[f].base_fare : f \in DOMAIN Flights}
        \cup {1000 * 1000}

InitFare ==
    /\ users = <<>>
    /\ bookings = <<>>
    /\ now = 0
    /\ current_user = [p \in Procs |-> 0]
    /\ pc = [p \in Procs |-> "menu"]
    /\ loc = [p \in Procs |-> NoLocals]
    /\ console = [p \in Procs |-> MsgMenu]
    /\ refund_log = <<>>
    /\ fn_in \in {[fn |-> "calculate_fare", base_fare |-> b] : b \in BaseFareInputs}
    /\ fn_out = NoCall

CalculateFare ==
    /\ fn_in.fn = "calculate_fare"
    /\ fn_out = NoCall
    /\ \E res \in calculate_fare(fn_in.base_fare) :
          fn_out' = [fn |-> "calculate_fare", total |-> res[1], tax |-> res[2],
                     fee |-> res[3]]
    /\ UNCHANGED <<users, bookings, now, current_user, pc, loc, console,
                   refund_log, fn_in>>

NextFare == CalculateFare

SpecFare == InitFare /\ [][NextFare]_vars

\* cents is a count of hundredths nearest to the amount x given in 1/100000
NearestCents(cents, x) == 1000 * cents - x \in -500..500

\* C13 as stated: the tax is the 5% of the base fare rounded to hundredths, the
\* fee is 100.00, and the total is the sum of the base fare, that rounded tax
\* and the fee, rounded to hundredths.
C13_TotalFromRoundedTax ==
    fn_out.fn = "calculate_fare"
        => /\ NearestCents(fn_out.tax, 5 * fn_in.base_fare)
           /\ fn_out.fee = 10000
           /\ NearestCents(fn_out.total,
                           100 * fn_in.base_fare + 1000 * fn_out.tax + 10000000)

\* C13: the tax is the 5% of the base fare rounded to hundredths, the fee is
\* 100.00, and the total is the sum of the base fare, the unrounded 5% and the
\* fee, rounded once to hundredths; a base fare of 1000.0 gives tax 50.00,
\* fee 100.00 and total 1150.00.
C13_TotalFromExactTax ==
    fn_out.fn = "calculate_fare"
        => /\ NearestCents(fn_out.tax, 5 * fn_in.base_fare)
           /\ fn_out.fee = 10000
           /\ NearestCents(fn_out.total, 105 * fn_in.base_fare + 10000000)
           /\ fn_in.base_fare = 1000000
                 => (fn_out.tax = 5000 /\ fn_out.total = 115000)

\* the base fare 0.024 has given tax 0.00 and total 100.03
C13_Witness ==
    /\ fn_out.fn = "calculate_fare"
    /\ fn_in.base_fare = 24
    /\ fn_out.tax = 0
    /\ fn_out.total = 10003

(***************************************************************************)
(* _calculate_refund on its own: a fare paid, the time the booking was     *)
(* created and the time of the cancel.                                     *)
(***************************************************************************)
FarePaidInputs == (0..MaxFarePaid) \cup {115000}
CreatedAtInputs == {0, 60}
AgeInputs == {0, 3600, RefundWindow - 1, RefundWindow, RefundWindow + 1,
              2 * RefundWindow}

InitRefund ==
    /\ users = <<>>
    /\ bookings = <<>>
    /\ now \in {c + a : c \in CreatedAtInputs, a \in AgeInputs}
    /\ current_user = [p \in Procs |-> 0]
    /\ pc = [p \in Procs |-> "menu"]
    /\ loc = [p \in Procs |-> NoLocals]
    /\ console = [p \in Procs |-> MsgMenu]
    /\ refund_log = <<>>
    /\ fn_in \in {[fn |-> "calculate_refund", fare_paid |-> f, created_at |-> c] :
                     f \in FarePaidInputs, c \in {d \in CreatedAtInputs : d <= now}}
    /\ fn_out = NoCall

CalculateRefund ==
    /\ fn_in.fn = "calculate_refund"
    /\ fn_out = NoCall
    /\ \E r \in calculate_refund(fn_in.fare_paid, fn_in.created_at, now) :
          fn_out' = [fn |-> "calculate_refund", refund |-> r]
    /\ UNCHANGED <<users, bookings, now, current_user, pc, loc, console,
                   refund_log, fn_in>>

NextRefund == CalculateRefund

SpecRefund == InitRefund /\ [][NextRefund]_vars

\* C14: the refund is the whole fare paid when the cancel comes strictly more
\* than 48 hours after the booking was created, and half of the fare paid (to
\* the hundredth) otherwise; at exactly 48 hours it is the half.
C14_RefundWindowStrict ==
    fn_out.fn = "calculate_refund"
        => LET age == now - fn_in.created_at
               half == 2 * fn_out.refund - fn_in.fare_paid \in -1..1
           IN  /\ age > 48 * 3600 => fn_out.refund = fn_in.fare_paid
               /\ age <= 48 * 3600 => half
               /\ age = 48 * 3600 => half

\* a fare of 1150.00 canceled exactly 48 hours after the booking: 575.00
C14_Witness ==
    /\ fn_out.fn = "calculate_refund"
    /\ now - fn_in.created_at = 48 * 3600
    /\ fn_in.fare_paid = 115000
    /\ fn_out.refund = 57500

(***************************************************************************)
(* Several processes registering users on a fresh database file,           *)
(* overtaking each other at the username and password prompts.             *)
(***************************************************************************)
StepReg(p) ==
    \/ \E u \in UsernameInputs : RegisterUsername(p, u)
    \/ \E pw \in PasswordInputs, pw2 \in PasswordInputs : RegisterPassword(p, pw, pw2)

NextReg == \E p \in Procs : StepReg(p)

SpecReg == Init /\ [][NextReg]_vars

\* some row of the users table has the username
UserHeld(username) == \E i \in DOMAIN users : users[i].username = username

\* C15: no two rows of the users table share a username, no row has an empty
\* username, and a register attempt for a username that a row already has
\* (at the username prompt, or at the insert after another process registered
\* the name meanwhile) adds no row and changes none.
C15_UsernamesUnique ==
    /\ [](\A i, j \in DOMAIN users :
             users[i].username = users[j].username => i = j)
    /\ [](\A i \in DOMAIN users : users[i].username # "")
    /\ [][\A p \in Procs :
             /\ \A u \in UsernameInputs :
                   (UserHeld(u) /\ RegisterUsername(p, u))
                       => (users' = users /\ console'[p] = MsgUsernameExists)
             /\ (pc[p] = "reg_password" /\ UserHeld(loc[p].username) /\ StepOf(p))
                   => (users' = users /\ console'[p] # MsgRegistered)]_vars

\* a process was overtaken at the password prompt by another one registering
\* the same username: its insert failed and the table holds the name once
C15_Witness ==
    /\ \E p \in Procs : console[p] = MsgRegistrationFailed
    /\ Len(users) = 1
    /\ users[1].username # ""

\* the labels the seat map of a flight of total seats displays
DisplayedLabels(total) ==
    UNION {{row_labels(total, r, 1, <<>>)[i] :
               i \in 1..Len(row_labels(total, r, 1, <<>>))} :
           r \in 1..seat_map_rows(total)}

\* the BOOKED rows of a flight
BookedRows(flight_id) ==
    {i \in DOMAIN bookings : /\ bookings[i].flight_id = flight_id
                             /\ bookings[i].status = "BOOKED"}

\* C16: a flight never has more BOOKED bookings than it has seats, and the
\* seat of every BOOKED booking is one of the labels the seat map of its
\* flight displays.
C16_BookedWithinSeatMap ==
    \A f \in DOMAIN Flights :
        /\ Cardinality(BookedRows(f)) <= Flights[f].total_seats
        /\ \A i \in BookedRows(f) :
               bookings[i].seat \in DisplayedLabels(Flights[f].total_seats)

(***************************************************************************)
(* One session on a fresh database file: register, login (also with a      *)
(* wrong password or an unknown username), logout, book and cancel on      *)
(* flight 1.                                                               *)
(***************************************************************************)
SessionSeatInputs == {<<"1", "a">>, <<"z">>}

StepSession(p) ==
    \/ \E u \in UsernameInputs : RegisterUsername(p, u)
    \/ \E pw \in PasswordInputs, pw2 \in PasswordInputs : RegisterPassword(p, pw, pw2)
    \/ \E u \in UsernameInputs, pw \in PasswordInputs : Login(p, u, pw)
    \/ Logout(p)
    \/ BookFlight(p, None, None, NoDate, 1)
    \/ \E seat \in SessionSeatInputs : BookSeat(p, seat)
    \/ \E c \in ConfirmInputs, rnd \in RndInputs : BookConfirm(p, c, rnd)
    \/ \E ref \in ConcRefInputs : CancelLookup(p, ref)
    \/ \E c \in ConfirmInputs : CancelConfirm(p, c)

NextSession == StepSession("p1")

SpecSession == Init /\ [][NextSession]_vars

\* C17: a step of a session inserts or cancels a booking only while a user is
\* logged in to it, and an inserted row carries that user's id; a failed login
\* leaves the current user as it was; a session gets a current user only by a
\* successful login, so after a logout no book or cancel changes the bookings
\* table until a login succeeds.
C17_SessionGuards ==
    [][\A p \in Procs : StepOf(p) =>
          /\ bookings' # bookings
                => /\ current_user[p] # 0
                   /\ current_user'[p] = current_user[p]
          /\ Len(bookings') > Len(bookings)
                => bookings'[Len(bookings')].user_id = current_user[p]
          /\ console'[p] \in {MsgUserNotFound, MsgIncorrectPassword}
                => current_user'[p] = current_user[p]
          /\ console'[p] = MsgLoggedOut => current_user'[p] = 0
          /\ (current_user'[p] # current_user[p] /\ current_user'[p] # 0)
                => console'[p] = MsgWelcome
          /\ current_user[p] = 0 => bookings' = bookings]_vars

\* a logged-in user who holds a booking has failed a login and is still the
\* current user
C17_Witness ==
    \E p \in Procs :
        /\ console[p] = MsgIncorrectPassword
        /\ current_user[p] # 0
        /\ \E i \in DOMAIN bookings : bookings[i].user_id = current_user[p]

\* C18: a successful cancel turns the status of the booking it was called for
\* from BOOKED to CANCELED and changes nothing else: every other field of that
\* row and every other row of the bookings table stay as they were, no row is
\* added or deleted, and the users table is unchanged.
C18_CancelFrame ==
    [][\A p \in Procs :
          (pc[p] = "cancel_confirm" /\ console'[p] = MsgCanceled)
              => /\ loc[p].b.id \in DOMAIN bookings
                 /\ bookings[loc[p].b.id].status = "BOOKED"
                 /\ bookings[loc[p].b.id].booking_ref = loc[p].ref
                 /\ DOMAIN bookings' = DOMAIN bookings
                 /\ \A i \in DOMAIN bookings :
                       IF i = loc[p].b.id
                       THEN bookings'[i] = [bookings[i] EXCEPT !.status = "CANCELED"]
                       ELSE bookings'[i] = bookings[i]
                 /\ users' = users]_vars

\* one booking was canceled while another BOOKED booking stayed as it was
C18_Witness ==
    /\ \E p \in Procs : console[p] = MsgCanceled
    /\ \E i, j \in DOMAIN bookings : /\ bookings[i].status = "CANCELED"
                                     /\ bookings[j].status = "BOOKED"
    /\ Len(refund_log) = 1

(***************************************************************************)
(* One session of a registered user while the clock advances: bookings on  *)
(* two flights, canceled before, at and after 48 hours.                    *)
(***************************************************************************)
Instants == {RefundWindow, RefundWindow + 1}

\* datetime.datetime.now() has moved on to t
Tick(t) ==
    /\ t > now
    /\ now' = t
    /\ UNCHANGED <<users, bookings, current_user, pc, loc, console, refund_log,
                   fn_in, fn_out>>

TimeFlightIdInputs == {1, 5}
TimeRefInputs == {generate_booking_ref(1, f, r) : f \in TimeFlightIdInputs,
                                                   r \in RndInputs}

StepTime(p) ==
    \/ current_user[p] = 0 /\ Login(p, "alice", GoodPassword)
    \/ \E fid \in TimeFlightIdInputs : BookFlight(p, None, None, NoDate, fid)
    \/ BookSeat(p, <<"1", "a">>)
    \/ \E rnd \in RndInputs : BookConfirm(p, "y", rnd)
    \/ \E ref \in TimeRefInputs : CancelLookup(p, ref)
    \/ CancelConfirm(p, "y")

NextTime ==
    \/ StepTime("p1")
    \/ \E t \in Instants : Tick(t)

SpecTime == InitConc /\ [][NextTime]_vars

\* C19: the fare stored in every booking is the total the fare calculation
\* gives for the base fare of the booking's flight, and the refund printed by
\* a successful cancel is the refund calculation applied to the fare and the
\* creation time stored in the canceled row, so it never exceeds the fare paid.
C19_FareStoredRefundBounded ==
    /\ [](\A i \in DOMAIN bookings :
             \E res \in calculate_fare(Flights[bookings[i].flight_id].base_fare) :
                 bookings[i].fare = res[1])
    /\ [](\A k \in DOMAIN refund_log :
             /\ refund_log[k].refund <= bookings[refund_log[k].id].fare
             /\ refund_log[k].refund >= 0)
    /\ [][\A p \in Procs :
             (pc[p] = "cancel_confirm" /\ console'[p] = MsgCanceled)
                 => /\ Len(refund_log') = Len(refund_log) + 1
                    /\ refund_log'[Len(refund_log')].id = loc[p].b.id
                    /\ refund_log'[Len(refund_log')].refund \in
                          calculate_refund(bookings[loc[p].b.id].fare,
                                           bookings[loc[p].b.id].created_at, now)]_vars

\* one booking was refunded in full and another by half
C19_Witness ==
    \E k, l \in DOMAIN refund_log :
        /\ bookings[refund_log[k].id].fare > 0
        /\ refund_log[k].refund = bookings[refund_log[k].id].fare
        /\ 2 * refund_log[l].refund = bookings[refund_log[l].id].fare

====
